---- MODULE Spec2Model ----
(***************************************************************************)
(* Model of coins/bitcoin/inscribe.go: the Ordinals inscription builder    *)
(* (commit transaction + one reveal transaction per inscription) and its   *)
(* MPC variant (InscribeForMPCUnsigned / InscribeForMPCSigned).            *)
(*                                                                         *)
(* Byte strings are modelled by their length and by what they commit to:   *)
(*  - a data item is a record [t, len, m]: its kind, its length in bytes   *)
(*    and the integers that identify its content (a signature's message,   *)
(*    the key a public key belongs to, the inscription a leaf encodes);    *)
(*  - a transaction id is the non-witness part of the transaction itself   *)
(*    (inputs with their scriptSig, outputs), so two transactions have the *)
(*    same id exactly when their stripped serializations agree;            *)
(*  - the hex of a transaction is its wire layout (segwit flag, inputs,    *)
(*    outputs, witness section).                                           *)
(* An ECDSA signature with its hash-type byte is 71 or 72 bytes long,      *)
(* depending on the high bit of r: which of the two a signing pass gets is *)
(* a nondeterministic choice, made afresh by every signing pass.           *)
(***************************************************************************)
EXTENDS Integers, Sequences, FiniteSets, TLC

(***************************************************************************)
(* Program constants                                                       *)
(***************************************************************************)
DefaultRevealOutValue == 546
DefaultMinChangeValue == 546
MaxStandardTxWeight == 4000000 \div 10
WitnessScaleFactor == 4
maxChunkSize == 520
\* len("ord")
OrdPrefixLen == 3
\* make([]byte, 64), make([]byte, 33) in the reveal pre-sizer
emptySignatureLen == 64
emptyControlBlockWitnessLen == 33
\* schnorr.SerializePubKey: 32-byte x-only key pushed first in the leaf
SchnorrPubKeyLen == 32
\* schnorr signature with SigHashDefault (no hash-type byte)
SchnorrSigLen == 64
\* control block of a single-leaf tree: 1 + 32
ControlBlockLen == 33
\* SerializeCompressed public key
CompressedPubKeyLen == 33
\* OP_0 <20-byte hash>: the P2WPKH redeem script
RedeemScriptLen == 22

(***************************************************************************)
(* Bounds of the model                                                     *)
(***************************************************************************)
MaxInputs == 2
MaxInscriptions == 2
MaxFeeRate == 2
\* bodies of the chunking specification range over 0 .. MaxBodySize
MaxBodySize == 1045
\* the amount of every funding output but the first
OtherAmount == 200

\* scriptPubKey kinds of the funding outputs: the four the signer tells
\* apart (P2SH stands for P2SH-wrapped P2WPKH), and P2WSH for any other shape
InputKinds == {"P2TR", "P2PKH", "P2WPKH", "P2SH", "P2WSH"}
\* an ECDSA signature with its hash-type byte: DER of 70 or 71 bytes, + 1
EcdsaSigLens == {71, 72}

(***************************************************************************)
(* wire: sizes                                                             *)
(***************************************************************************)
Min(a, b) == IF a < b THEN a ELSE b

\* the sum of s[lo..hi], by halves (a long script has hundreds of pushes)
RECURSIVE SumRange(_, _, _)
SumRange(s, lo, hi) ==
    IF lo > hi THEN 0
    ELSE IF lo = hi THEN s[lo]
    ELSE LET mid == (lo + hi) \div 2
         IN SumRange(s, lo, mid) + SumRange(s, mid + 1, hi)
SumSeq(s) == SumRange(s, 1, Len(s))

\* wire.VarIntSerializeSize
VarIntSerializeSize(n) ==
    IF n < 253 THEN 1
    ELSE IF n <= 65535 THEN 3
    ELSE 5

\* length of the scriptPubKey AddrToPkScript returns for an address kind
PkScriptLen(kind) ==
    CASE kind = "P2TR" -> 34
      [] kind = "P2PKH" -> 25
      [] kind = "P2WPKH" -> 22
      [] kind = "P2SH" -> 23
      [] kind = "P2WSH" -> 34
      [] OTHER -> 34

\* txscript canonical data push (ScriptBuilder.AddData / AddFullData):
\* the bytes a push of `len` bytes takes; `first` is the first data byte,
\* which decides the encoding of a one-byte push (OP_0, OP_1..OP_16,
\* OP_1NEGATE take one byte in all).
CanonicalPushSize(len, first) ==
    IF len = 0 THEN 1
    ELSE IF len = 1 /\ (first <= 16 \/ first = 129) THEN 1
    ELSE IF len < 76 THEN 1 + len
    ELSE IF len <= 255 THEN 2 + len
    ELSE IF len <= 65535 THEN 3 + len
    ELSE 5 + len

(***************************************************************************)
(* Data items, scripts, transactions                                       *)
(***************************************************************************)
Item(t, len, m) == [t |-> t, len |-> len, m |-> m]
\* a signature commits to the transaction it signs: m is the list of the
\* output values of that transaction
OutValues(tx) == [k \in 1..Len(tx.TxOut) |-> tx.TxOut[k].Value]
SchnorrSig(msg) == Item("schnorr", SchnorrSigLen, msg)
EcdsaSig(len, msg) == Item("ecdsa", len, msg)
PubKey(k) == Item("pubkey", CompressedPubKeyLen, <<k>>)
RedeemScript(k) == Item("redeem", RedeemScriptLen, <<k>>)
EmptyItem == Item("empty", 0, <<>>)

\* an element of a scriptSig: a data push of an item, or raw bytes
ScriptPush(it) == [enc |-> "push", t |-> it.t, len |-> it.len, m |-> it.m]
ScriptRaw(it) == [enc |-> "raw", t |-> it.t, len |-> it.len, m |-> it.m]
ScriptElemSize(e) ==
    IF e.enc = "raw" THEN e.len ELSE CanonicalPushSize(e.len, 255)
ScriptLen(ss) == SumSeq([k \in 1..Len(ss) |-> ScriptElemSize(ss[k])])
\* the bytes of a scriptSig read back as one data item (the MPC signer
\* reads the public key it seeded there)
ScriptBytesAsItem(ss) ==
    IF ss = <<>> THEN EmptyItem
    ELSE IF Len(ss) = 1 /\ ss[1].enc = "raw" THEN Item(ss[1].t, ss[1].len, ss[1].m)
    ELSE Item("script", ScriptLen(ss), <<>>)

PkScript(kind, tag) == [kind |-> kind, tag |-> tag]
NewTxOut(value, pk) == [Value |-> value, PkScript |-> pk]
\* wire.NewTxIn(outPoint, nil, nil)
NewTxIn(hash, index) ==
    [Hash |-> hash, Index |-> index, SignatureScript |-> <<>>, Witness |-> <<>>]
NewMsgTx == [TxIn |-> <<>>, TxOut |-> <<>>]

\* MsgTx.TxHash: double-SHA256 of the serialization without witness data,
\* modelled by that stripped content itself
StripTxIn(in) ==
    [Hash |-> in.Hash, Index |-> in.Index, SignatureScript |-> in.SignatureScript]
TxHash(tx) ==
    [vin |-> [k \in 1..Len(tx.TxIn) |-> StripTxIn(tx.TxIn[k])], vout |-> tx.TxOut]
\* chainhash.Hash{}: the placeholder of wire.OutPoint{Index: i}
ZeroHash == [vin |-> <<>>, vout |-> <<>>]
\* the id of the k-th funding transaction (PrevOutput.TxId)
FundingTxId(k) ==
    [vin |-> <<>>, vout |-> <<NewTxOut(k, PkScript("funding", <<>>))>>]

TxInSerializeSize(in) ==
    40 + VarIntSerializeSize(ScriptLen(in.SignatureScript)) + ScriptLen(in.SignatureScript)
TxOutSerializeSize(out) ==
    8 + VarIntSerializeSize(PkScriptLen(out.PkScript.kind)) + PkScriptLen(out.PkScript.kind)
\* wire.TxWitness.SerializeSize
WitnessSerializeSize(w) ==
    VarIntSerializeSize(Len(w))
    + SumSeq([k \in 1..Len(w) |-> VarIntSerializeSize(w[k].len) + w[k].len])
HasWitness(tx) == \E k \in 1..Len(tx.TxIn) : Len(tx.TxIn[k].Witness) # 0
\* wire.MsgTx.SerializeSizeStripped
SerializeSizeStripped(tx) ==
    8 + VarIntSerializeSize(Len(tx.TxIn)) + VarIntSerializeSize(Len(tx.TxOut))
    + SumSeq([k \in 1..Len(tx.TxIn) |-> TxInSerializeSize(tx.TxIn[k])])
    + SumSeq([k \in 1..Len(tx.TxOut) |-> TxOutSerializeSize(tx.TxOut[k])])
\* wire.MsgTx.SerializeSize
SerializeSize(tx) ==
    SerializeSizeStripped(tx)
    + (IF HasWitness(tx)
       THEN 2 + SumSeq([k \in 1..Len(tx.TxIn) |-> WitnessSerializeSize(tx.TxIn[k].Witness)])
       ELSE 0)

\* a weight that gives witness bytes no discount
GetTransactionWeightNoDiscount(tx) == SerializeSize(tx) * WitnessScaleFactor
GetTransactionWeight(tx) ==
    SerializeSizeStripped(tx) * (WitnessScaleFactor - 1) + SerializeSize(tx)
GetTxVirtualSize(tx) ==
    (GetTransactionWeight(tx) + (WitnessScaleFactor - 1)) \div WitnessScaleFactor

\* GetTxHex: the wire layout (the witness section is written only when
\* some input has a witness); the empty string is the layout with nothing
GetTxHex(tx) ==
    [segwit |-> HasWitness(tx),
     vin |-> [k \in 1..Len(tx.TxIn) |-> StripTxIn(tx.TxIn[k])],
     vout |-> tx.TxOut,
     wit |-> IF HasWitness(tx)
             THEN [k \in 1..Len(tx.TxIn) |-> tx.TxIn[k].Witness]
             ELSE <<>>]
EmptyHex == [segwit |-> FALSE, vin |-> <<>>, vout |-> <<>>, wit |-> <<>>]
\* hex.DecodeString + MsgTx.Deserialize
Deserialize(h) ==
    [TxIn |-> [k \in 1..Len(h.vin) |->
                 [Hash |-> h.vin[k].Hash, Index |-> h.vin[k].Index,
                  SignatureScript |-> h.vin[k].SignatureScript,
                  Witness |-> IF h.segwit THEN h.wit[k] ELSE <<>>]],
     TxOut |-> h.vout]

(***************************************************************************)
(* newInscriptionTxCtxData: the envelope                                   *)
(***************************************************************************)
\* the byte at offset p of a body: bodies are the byte strings
\* seed, seed+1, ... (mod 256)
BodyByte(seed, p) == (seed + p) % 256
Body(seed, n) == [p \in 1..n |-> BodyByte(seed, p - 1)]

\* the loop  for i := 0; i < bodySize; i += maxChunkSize : the list of the
\* slices Body[i:end] it pushes, each as <<i, end>>. The k-th pass runs
\* with i = (k-1)*maxChunkSize, as long as i < bodySize.
ChunkStarts(bodySize) ==
    {i \in {k * maxChunkSize : k \in 0..(bodySize \div maxChunkSize)} : i < bodySize}
\* a chunk loop that cuts one byte short of the chunk size
ChunkAtShort(i, bodySize) ==
    LET end == IF i + maxChunkSize > bodySize THEN bodySize ELSE i + maxChunkSize - 1
    IN <<i, end>>
ChunkAt(i, bodySize) ==
    LET end == IF i + maxChunkSize > bodySize THEN bodySize ELSE i + maxChunkSize
    IN <<i, end>>
BodyChunks(bodySize) ==
    [k \in 1..Cardinality(ChunkStarts(bodySize)) |->
        ChunkAt((k - 1) * maxChunkSize, bodySize)]

\* the bytes the body pushes take in the leaf script: every pass of the
\* loop but the last pushes maxChunkSize bytes, the last one the rest
BodyPushesLen(bodySize, seed) ==
    LET full == bodySize \div maxChunkSize
        rest == bodySize % maxChunkSize
    IN full * CanonicalPushSize(maxChunkSize, BodyByte(seed, 0))
       + (IF rest > 0
          THEN CanonicalPushSize(rest, BodyByte(seed, full * maxChunkSize))
          ELSE 0)
\* length of the leaf script: pubkey push, OP_CHECKSIG, OP_FALSE, OP_IF,
\* "ord" push, OP_DATA_1, OP_DATA_1, content-type push, OP_0, the body
\* pushes, OP_ENDIF
InscriptionScriptLen(data) ==
    CanonicalPushSize(SchnorrPubKeyLen, 255) + 1 + 1 + 1
    + CanonicalPushSize(OrdPrefixLen, 255) + 1 + 1
    + CanonicalPushSize(data.ContentTypeLen, 255) + 1
    + BodyPushesLen(data.BodySize, data.BodySeed)
    + 1

InscriptionTag(data) == <<data.ContentTypeLen, data.BodySize, data.BodySeed>>
NilTxOut == NewTxOut(0, PkScript("nil", <<>>))
newInscriptionTxCtxData(request, i) ==
    LET data == request.InscriptionDataList[i]
    IN [InscriptionScript |->
            Item("leaf", InscriptionScriptLen(data), InscriptionTag(data)),
        CommitTxAddress |-> InscriptionTag(data),
        CommitTxAddressPkScript |-> PkScript("P2TR", InscriptionTag(data)),
        ControlBlockWitness |-> Item("control", ControlBlockLen, InscriptionTag(data)),
        RevealTxPrevOutput |-> NilTxOut]

(***************************************************************************)
(* Request defaults (initTool)                                             *)
(***************************************************************************)
RevealOutValueOf(request) ==
    IF request.RevealOutValue > 0 THEN request.RevealOutValue ELSE DefaultRevealOutValue
MinChangeValueOf(request) ==
    IF request.MinChangeValue > 0 THEN request.MinChangeValue ELSE DefaultMinChangeValue

(***************************************************************************)
(* Commit signer: SignTxInput1, Sign                                       *)
(***************************************************************************)
OutPoint(hash, index) == [Hash |-> hash, Index |-> index]
PreviousOutPoint(in) == OutPoint(in.Hash, in.Index)

\* the outpoint and the prior output of the k-th PrevOutput of a request
PrevOutPoint(prevOutputList, k) == OutPoint(FundingTxId(k), prevOutputList[k].VOut)
PrevTxOut(prevOutputList, k) ==
    NewTxOut(prevOutputList[k].Amount, PkScript(prevOutputList[k].Kind, <<k>>))
\* MultiPrevOutFetcher after AddPrevOut of every PrevOutput in order: a map,
\* so a later entry of the same outpoint replaces an earlier one
CommitPrevOutFetcher(prevOutputList) ==
    [o \in {PrevOutPoint(prevOutputList, k) : k \in 1..Len(prevOutputList)} |->
        LET last == CHOOSE k \in 1..Len(prevOutputList) :
                        /\ PrevOutPoint(prevOutputList, k) = o
                        /\ \A j \in (k + 1)..Len(prevOutputList) :
                               PrevOutPoint(prevOutputList, j) # o
        IN PrevTxOut(prevOutputList, last)]

\* SignTxInput1 on input `in` with the key of PrevOutput k; msg is what the
\* signature commits to, sigLen the length the ECDSA signature comes out at
SignTxInput1(k, in, kind, msg, sigLen) ==
    IF kind = "P2TR"
    THEN [in EXCEPT !.Witness = <<SchnorrSig(msg)>>]
    ELSE IF kind = "P2PKH"
    THEN [in EXCEPT !.SignatureScript =
                        <<ScriptPush(EcdsaSig(sigLen, msg)), ScriptPush(PubKey(k))>>]
    ELSE LET signed == [in EXCEPT !.Witness = <<EcdsaSig(sigLen, msg), PubKey(k)>>]
         IN IF kind # "P2SH"
            THEN signed
            ELSE [signed EXCEPT !.SignatureScript = <<ScriptPush(RedeemScript(k))>>]

\* Sign: every input, with the key of the same position
Sign(tx, fetcher, sigLens) ==
    [tx EXCEPT !.TxIn =
        [k \in 1..Len(tx.TxIn) |->
            SignTxInput1(k, tx.TxIn[k], fetcher[PreviousOutPoint(tx.TxIn[k])].PkScript.kind,
                         OutValues(tx), sigLens[k])]]

(***************************************************************************)
(* Reveal pre-sizer: buildEmptyRevealTx                                    *)
(***************************************************************************)
\* addTxInTxOutIntoRevealTx: one input spending output `index` of a
\* transaction not known yet, one output to the reveal address
EmptyRevealTx(request, index, revealOutValue) ==
    [TxIn |-> <<NewTxIn(ZeroHash, index)>>,
     TxOut |-> <<NewTxOut(revealOutValue,
                          PkScript(request.InscriptionDataList[index + 1].RevealKind, <<>>))>>]
\* the witness the pre-sizer measures
\* a dummy witness sized for a control block with one merkle step
FakeWitnessLongControlBlock(ctx) ==
    <<Item("zero", emptySignatureLen, <<>>), ctx.InscriptionScript,
      Item("zero", emptyControlBlockWitnessLen + 32, <<>>)>>
FakeWitness(ctx) ==
    <<Item("zero", emptySignatureLen, <<>>), ctx.InscriptionScript,
      Item("zero", emptyControlBlockWitnessLen, <<>>)>>
\* fee := (witness size + 2 + 3) / 4 * revealFeeRate
RevealWitnessFee(ctx, revealFeeRate) ==
    ((WitnessSerializeSize(FakeWitness(ctx)) + 2 + 3) \div 4) * revealFeeRate
\* mustRevealTxFees[i]
MustRevealTxFee(tx, ctx, revealFeeRate) ==
    SerializeSize(tx) * revealFeeRate + RevealWitnessFee(ctx, revealFeeRate)
RevealPrevOutputValueNoWitnessFee(tx, ctx, revealOutValue, revealFeeRate) ==
    revealOutValue + SerializeSize(tx) * revealFeeRate
\* prevOutputValue of inscription i
RevealPrevOutputValue(tx, ctx, revealOutValue, revealFeeRate) ==
    revealOutValue + SerializeSize(tx) * revealFeeRate + RevealWitnessFee(ctx, revealFeeRate)

buildEmptyRevealTx(b, request, revealOutValue, revealFeeRate) ==
    LET total == Len(b.InscriptionTxCtxDataList)
        tx(i) == EmptyRevealTx(request, i - 1, revealOutValue)
        value(i) == RevealPrevOutputValue(tx(i), b.InscriptionTxCtxDataList[i],
                                          revealOutValue, revealFeeRate)
    IN [b EXCEPT
          !.InscriptionTxCtxDataList =
              [i \in 1..total |->
                  [b.InscriptionTxCtxDataList[i] EXCEPT
                      !.RevealTxPrevOutput =
                          NewTxOut(value(i), b.InscriptionTxCtxDataList[i].CommitTxAddressPkScript)]],
          !.RevealTx = [i \in 1..total |-> tx(i)],
          !.MustRevealTxFees =
              [i \in 1..total |->
                  MustRevealTxFee(tx(i), b.InscriptionTxCtxDataList[i], revealFeeRate)],
          !.CommitAddrs = [i \in 1..total |-> b.InscriptionTxCtxDataList[i].CommitTxAddress],
          !.totalRevealPrevOutputValue = SumSeq([i \in 1..total |-> value(i)])]

(***************************************************************************)
(* Commit builder: buildCommitTx                                           *)
(***************************************************************************)
DropLast(s) == SubSeq(s, 1, Len(s) - 1)
SetLastValue(outs, v) == [outs EXCEPT ![Len(outs)].Value = v]

\* the commit transaction before the change decision: the inputs, one
\* output per inscription, the change output with value 0
UnfundedCommitTx(prevOutputList, ctxList, changeKind) ==
    [TxIn |-> [k \in 1..Len(prevOutputList) |->
                  NewTxIn(FundingTxId(k), prevOutputList[k].VOut)],
     TxOut |-> [i \in 1..Len(ctxList) |-> ctxList[i].RevealTxPrevOutput]
               \o <<NewTxOut(0, PkScript(changeKind, <<>>))>>]
TotalSenderAmount(prevOutputList) ==
    SumSeq([k \in 1..Len(prevOutputList) |-> prevOutputList[k].Amount])
\* fee := GetTxVirtualSize(txForEstimate) * commitFeeRate
EstimateFee(txForEstimate, commitFeeRate) ==
    GetTxVirtualSize(txForEstimate) * commitFeeRate
\* feeWithoutChange, on txForEstimate with its last output cut off
EstimateFeeWithoutChange(txForEstimate, commitFeeRate) ==
    GetTxVirtualSize([txForEstimate EXCEPT !.TxOut = DropLast(txForEstimate.TxOut)])
        * commitFeeRate
\* an insufficiency test on the fee that includes the change output
CommitInsufficientWithChange(totalSenderAmount, totalRevealPrevOutputValue, txForEstimate, commitFeeRate, minChangeValue) ==
    totalSenderAmount - totalRevealPrevOutputValue
        - EstimateFee(txForEstimate, commitFeeRate) < 0
\* the condition under which buildCommitTx returns "insufficient balance"
CommitInsufficient(totalSenderAmount, totalRevealPrevOutputValue, txForEstimate, commitFeeRate, minChangeValue) ==
    LET fee == EstimateFee(txForEstimate, commitFeeRate)
        changeAmount == totalSenderAmount - totalRevealPrevOutputValue - fee
    IN /\ ~(changeAmount >= minChangeValue)
       /\ changeAmount < 0
       /\ totalSenderAmount - totalRevealPrevOutputValue
              - EstimateFeeWithoutChange(txForEstimate, commitFeeRate) < 0
\* a change decision that drops a change of exactly minChangeValue
CommitTxOutStrict(outs, changeAmount, minChangeValue) ==
    IF changeAmount > minChangeValue
    THEN SetLastValue(outs, changeAmount)
    ELSE DropLast(outs)
\* the outputs of the commit transaction after the change decision
CommitTxOut(outs, changeAmount, minChangeValue) ==
    IF changeAmount >= minChangeValue
    THEN SetLastValue(outs, changeAmount)
    ELSE DropLast(outs)

\* buildCommitTx. txForEstimate shares the inputs of tx (txForEstimate.TxIn =
\* tx.TxIn copies the slice of pointers), so the dry signatures are left in
\* the inputs of builder.CommitTx.
buildCommitTx(b, prevOutputList, changeKind, totalRevealPrevOutputValue, commitFeeRate, minChangeValue, sigLens) ==
    LET fetcher == CommitPrevOutFetcher(prevOutputList)
        totalSenderAmount == TotalSenderAmount(prevOutputList)
        tx == UnfundedCommitTx(prevOutputList, b.InscriptionTxCtxDataList, changeKind)
        txForEstimate == Sign(tx, fetcher, sigLens)
        fee == EstimateFee(txForEstimate, commitFeeRate)
        changeAmount == totalSenderAmount - totalRevealPrevOutputValue - fee
        b1 == [b EXCEPT !.CommitTxPrevOutputFetcher = fetcher,
                        !.txForEstimate = txForEstimate]
    IN IF CommitInsufficient(totalSenderAmount, totalRevealPrevOutputValue,
                             txForEstimate, commitFeeRate, minChangeValue)
       THEN [b1 EXCEPT !.MustCommitTxFee = fee, !.err = "insufficient balance"]
       ELSE [b1 EXCEPT !.CommitTx =
                          [TxIn |-> txForEstimate.TxIn,
                           TxOut |-> CommitTxOut(tx.TxOut, changeAmount, minChangeValue)],
                       !.hasCommitTx = TRUE]

\* signCommitTx
signCommitTx(b, sigLens) ==
    [b EXCEPT !.CommitTx = Sign(b.CommitTx, b.CommitTxPrevOutputFetcher, sigLens)]

(***************************************************************************)
(* Reveal completer: completeRevealTx                                      *)
(***************************************************************************)
\* what the tapscript signature of reveal i commits to besides the
\* previous outpoint: the input index, the value it spends, the value it pays
RevealSigMsg(tx, prevOut) == <<tx.TxIn[1].Index, prevOut.Value, tx.TxOut[1].Value>>
\* the reveal transaction with its previous outpoint hash and its witness set
CompleteReveal(tx, ctx, hash) ==
    [tx EXCEPT !.TxIn[1].Hash = hash,
               !.TxIn[1].Witness =
                   <<SchnorrSig(RevealSigMsg(tx, ctx.RevealTxPrevOutput)),
                     ctx.InscriptionScript, ctx.ControlBlockWitness>>]
\* the positions (from 1) of the transactions heavier than the standard weight
TooHeavy(txs) ==
    {i \in 1..Len(txs) : GetTransactionWeight(txs[i]) > MaxStandardTxWeight}
SetMin(S) == CHOOSE x \in S : \A y \in S : x <= y

\* a completer that takes the commit txid as it was before any signature
completeRevealTxBeforeSigning(b) ==
    LET n == Len(b.InscriptionTxCtxDataList)
        hash == TxHash([b.CommitTx EXCEPT !.TxIn =
                           [k \in 1..Len(b.CommitTx.TxIn) |->
                               [b.CommitTx.TxIn[k] EXCEPT !.SignatureScript = <<>>]]])
        txs == [i \in 1..n |->
                   CompleteReveal(b.RevealTx[i], b.InscriptionTxCtxDataList[i], hash)]
        b1 == [b EXCEPT
                 !.RevealTxPrevOutputFetcher =
                     [o \in {OutPoint(hash, i - 1) : i \in 1..n} |->
                         b.InscriptionTxCtxDataList[o.Index + 1].RevealTxPrevOutput],
                 !.RevealTx = txs]
    IN IF TooHeavy(txs) # {}
       THEN [b1 EXCEPT !.err = "reveal too heavy", !.errIndex = SetMin(TooHeavy(txs)) - 1]
       ELSE b1
completeRevealTx(b) ==
    LET n == Len(b.InscriptionTxCtxDataList)
        hash == TxHash(b.CommitTx)
        txs == [i \in 1..n |->
                   CompleteReveal(b.RevealTx[i], b.InscriptionTxCtxDataList[i], hash)]
        b1 == [b EXCEPT
                 !.RevealTxPrevOutputFetcher =
                     [o \in {OutPoint(hash, i - 1) : i \in 1..n} |->
                         b.InscriptionTxCtxDataList[o.Index + 1].RevealTxPrevOutput],
                 !.RevealTx = txs]
    IN IF TooHeavy(txs) # {}
       THEN [b1 EXCEPT !.err = "reveal too heavy", !.errIndex = SetMin(TooHeavy(txs)) - 1]
       ELSE b1

(***************************************************************************)
(* CalculateFee, Inscribe                                                  *)
(***************************************************************************)
RECURSIVE Flatten(_)
Flatten(ss) == IF ss = <<>> THEN <<>> ELSE Head(ss) \o Flatten(Tail(ss))

\* sum of the fetched values of the inputs minus the sum of the outputs
TxFee(tx, fetcher) ==
    SumSeq([k \in 1..Len(tx.TxIn) |-> fetcher[PreviousOutPoint(tx.TxIn[k])].Value])
    - SumSeq(OutValues(tx))
\* the entries one reveal transaction adds to revealTxFees: one per input,
\* each the running difference of input values and output values so far
RevealFeeEntries(tx, fetcher) ==
    [k \in 1..Len(tx.TxIn) |->
        SumSeq([j \in 1..k |-> fetcher[PreviousOutPoint(tx.TxIn[j])].Value
                                - tx.TxOut[j].Value])]
CalculateFee(b) ==
    [commitTxFee |-> TxFee(b.CommitTx, b.CommitTxPrevOutputFetcher),
     revealTxFees |->
         Flatten([i \in 1..Len(b.RevealTx) |->
                     RevealFeeEntries(b.RevealTx[i], b.RevealTxPrevOutputFetcher)])]

Response(err, errIndex, commitTx, revealTxs, commitTxFee, revealTxFees, commitAddrs) ==
    [err |-> err, errIndex |-> errIndex, CommitTx |-> commitTx, RevealTxs |-> revealTxs,
     CommitTxFee |-> commitTxFee, RevealTxFees |-> revealTxFees,
     CommitAddrs |-> commitAddrs, SigHashList |-> <<>>]
\* (nil, err)
NilResponse(err, errIndex) == Response(err, errIndex, EmptyHex, <<>>, 0, <<>>, <<>>)
NoResponse == NilResponse("", -1)

\* Inscribe, on the builder NewInscriptionTool returned
Inscribe(b) ==
    IF b.err = "insufficient balance"
    THEN Response("", -1, EmptyHex, <<>>, b.MustCommitTxFee, b.MustRevealTxFees,
                  b.CommitAddrs)
    ELSE IF b.err # ""
    THEN NilResponse(b.err, b.errIndex)
    ELSE Response("", -1, GetTxHex(b.CommitTx),
                  [i \in 1..Len(b.RevealTx) |-> GetTxHex(b.RevealTx[i])],
                  CalculateFee(b).commitTxFee, CalculateFee(b).revealTxFees,
                  b.CommitAddrs)

(***************************************************************************)
(* MPC variant                                                             *)
(***************************************************************************)
\* an optional *chainhash.Hash argument
NilHash == [set |-> FALSE, hash |-> ZeroHash]
SomeHash(h) == [set |-> TRUE, hash |-> h]

\* calcSigHash: what it leaves in input k of the commit transaction
SeedTxIn(k, in, kind) ==
    IF kind = "P2TR"
    THEN in
    ELSE IF kind = "P2PKH"
    THEN [in EXCEPT !.SignatureScript = <<ScriptRaw(PubKey(k))>>]
    ELSE LET seeded == [in EXCEPT !.Witness = <<PubKey(k)>>]
         IN IF kind = "P2SH"
            THEN [seeded EXCEPT !.SignatureScript = <<ScriptPush(RedeemScript(k))>>]
            ELSE seeded
\* the digest of input k: it commits to the outputs of the transaction
SigHash(k, tx) == Item("sighash", 32, <<k>> \o OutValues(tx))
calcSigHash(tx, fetcher) ==
    [tx |-> [tx EXCEPT !.TxIn =
                [k \in 1..Len(tx.TxIn) |->
                    SeedTxIn(k, tx.TxIn[k],
                             fetcher[PreviousOutPoint(tx.TxIn[k])].PkScript.kind)]],
     sigHashList |-> [k \in 1..Len(tx.TxIn) |-> SigHash(k, tx)]]

\* revealFee := (SerializeSize + (fakeWitness size + 2 + 3)/4) * RevealFeeRate
MPCRevealFee(tx, ctx, revealFeeRate) ==
    (SerializeSize(tx) + ((WitnessSerializeSize(FakeWitness(ctx)) + 2 + 3) \div 4))
        * revealFeeRate
\* the condition under which InscribeForMPCUnsigned returns
\* "insufficient balance"
MPCInsufficient(totalCommitInValue, totalRevealInValue, estimateTx, commitFeeRate, minChangeValue) ==
    LET changeValue == totalCommitInValue - totalRevealInValue
                           - EstimateFee(estimateTx, commitFeeRate)
    IN /\ ~(changeValue >= minChangeValue)
       /\ totalCommitInValue - totalRevealInValue
              - EstimateFeeWithoutChange(estimateTx, commitFeeRate) < 0
\* a hash choice that never takes the signed hash
MPCCommitTxHashBuiltOnly(commitTx, unsignedCommitHash, signedCommitTxHash) ==
    TxHash(commitTx)
\* the hash the reveal transactions spend: the signed hash when given,
\* else the hash of the commit transaction just built
MPCCommitTxHash(commitTx, unsignedCommitHash, signedCommitTxHash) ==
    IF signedCommitTxHash.set THEN signedCommitTxHash.hash ELSE TxHash(commitTx)

InscribeForMPCUnsigned(request, unsignedCommitHash, signedCommitTxHash, sigLens) ==
    LET n == Len(request.InscriptionDataList)
        scriptCtxList == [i \in 1..n |-> newInscriptionTxCtxData(request, i)]
        revealOutValue == RevealOutValueOf(request)
        emptyTx(i) == EmptyRevealTx(request, i - 1, revealOutValue)
        revealInValue(i) ==
            revealOutValue + MPCRevealFee(emptyTx(i), scriptCtxList[i], request.RevealFeeRate)
        ctxList == [i \in 1..n |->
                       [scriptCtxList[i] EXCEPT
                           !.RevealTxPrevOutput =
                               NewTxOut(revealInValue(i),
                                        scriptCtxList[i].CommitTxAddressPkScript)]]
        totalRevealInValue == SumSeq([i \in 1..n |-> revealInValue(i)])
        prevOutFetcher == CommitPrevOutFetcher(request.CommitTxPrevOutputList)
        totalCommitInValue == TotalSenderAmount(request.CommitTxPrevOutputList)
        tx0 == UnfundedCommitTx(request.CommitTxPrevOutputList, ctxList, request.ChangeKind)
        estimateTx == Sign(tx0, prevOutFetcher, sigLens)
        changeValue == totalCommitInValue - totalRevealInValue
                           - EstimateFee(estimateTx, request.CommitFeeRate)
        funded == [tx0 EXCEPT !.TxOut = CommitTxOut(tx0.TxOut, changeValue,
                                                     MinChangeValueOf(request))]
        seeded == calcSigHash(funded, prevOutFetcher)
        commitTx == seeded.tx
        commitTxHash == MPCCommitTxHash(commitTx, unsignedCommitHash, signedCommitTxHash)
        revealTx(i) == CompleteReveal(emptyTx(i), ctxList[i], commitTxHash)
        revealFetcher(i) ==
            [o \in {OutPoint(commitTxHash, i - 1)} |-> ctxList[i].RevealTxPrevOutput]
    IN IF MPCInsufficient(totalCommitInValue, totalRevealInValue, estimateTx,
                          request.CommitFeeRate, MinChangeValueOf(request))
       THEN NilResponse("insufficient balance", -1)
       ELSE [Response("", -1, GetTxHex(commitTx),
                      [i \in 1..n |-> GetTxHex(revealTx(i))],
                      TxFee(commitTx, prevOutFetcher),
                      Flatten([i \in 1..n |-> RevealFeeEntries(revealTx(i), revealFetcher(i))]),
                      [i \in 1..n |-> ctxList[i].CommitTxAddress])
             EXCEPT !.SigHashList = seeded.sigHashList]

\* the loop of InscribeForMPCSigned on input `in`: the signature goes to the
\* scriptSig when the input has no witness, else to the witness
InjectSignature(in, signature) ==
    IF Len(in.Witness) = 0
    THEN [in EXCEPT !.SignatureScript =
                        <<ScriptPush(signature),
                          ScriptPush(ScriptBytesAsItem(in.SignatureScript))>>]
    ELSE [in EXCEPT !.Witness = <<signature, in.Witness[1]>>]
\* the commit transaction of the hex with every signature injected
MPCSignedCommitTx(commitTxHex, signatureLens) ==
    LET tx == Deserialize(commitTxHex)
    IN [tx EXCEPT !.TxIn =
           [k \in 1..Len(tx.TxIn) |->
               InjectSignature(tx.TxIn[k], EcdsaSig(signatureLens[k], OutValues(tx)))]]

\* one entry of the signatures argument: a string of `chars` characters;
\* rHex / sHex say whether its characters 0..63 / 64..127 (those there are)
\* are all hexadecimal digits; der is the length the DER encoding of (r, s)
\* plus the hash-type byte comes out at
SigString(chars, rHex, sHex, der) ==
    [chars |-> chars, rHex |-> rHex, sHex |-> sHex, der |-> der]
\* what one pass of the signature loop does with signatures[i]: the index
\* and the two slice expressions panic when out of range, hex.DecodeString
\* returns an error on a character that is no hexadecimal digit
SignatureStep(sigs, i) ==
    IF i > Len(sigs) THEN "panic"
    ELSE IF sigs[i].chars < 64 THEN "panic"
    ELSE IF ~sigs[i].rHex THEN "error"
    ELSE IF sigs[i].chars < 128 THEN "panic"
    ELSE IF ~sigs[i].sHex THEN "error"
    ELSE "ok"
\* the first input (from 1) whose pass does not go through, 0 when all do
FirstBadSignature(sigs, n) ==
    LET bad == {i \in 1..n : SignatureStep(sigs, i) # "ok"}
    IN IF bad = {} THEN 0 ELSE SetMin(bad)
\* InscribeForMPCSigned ends in a run-time panic
InscribeForMPCSignedPanics(commitTxHex, sigs) ==
    LET n == Len(Deserialize(commitTxHex).TxIn)
        bad == FirstBadSignature(sigs, n)
    IN bad # 0 /\ SignatureStep(sigs, bad) = "panic"

\* a signed call that re-runs the unsigned one without the signed hash
InscribeForMPCSignedNoHash(request, commitTxHex, sigs, sigLens) ==
    LET n == Len(Deserialize(commitTxHex).TxIn)
        tx == MPCSignedCommitTx(commitTxHex, [k \in 1..n |-> sigs[k].der])
        res == InscribeForMPCUnsigned(request, NilHash, NilHash, sigLens)
    IN IF FirstBadSignature(sigs, n) # 0
       THEN NilResponse("encoding/hex: invalid byte", -1)
       ELSE IF res.err # ""
       THEN NilResponse(res.err, res.errIndex)
       ELSE [res EXCEPT !.SigHashList = <<>>, !.CommitTx = GetTxHex(tx)]
\* InscribeForMPCSigned, when it returns (see InscribeForMPCSignedPanics)
InscribeForMPCSigned(request, commitTxHex, sigs, sigLens) ==
    LET n == Len(Deserialize(commitTxHex).TxIn)
        unsignedCommitTxHash == TxHash(Deserialize(commitTxHex))
        tx == MPCSignedCommitTx(commitTxHex, [k \in 1..n |-> sigs[k].der])
        signedCommitTxHash == TxHash(tx)
        res == InscribeForMPCUnsigned(request, SomeHash(unsignedCommitTxHash),
                                      SomeHash(signedCommitTxHash), sigLens)
    IN IF FirstBadSignature(sigs, n) # 0
       THEN NilResponse("encoding/hex: invalid byte", -1)
       ELSE IF res.err # ""
       THEN NilResponse(res.err, res.errIndex)
       ELSE [res EXCEPT !.SigHashList = <<>>, !.CommitTx = GetTxHex(tx)]

(***************************************************************************)
(* State                                                                   *)
(***************************************************************************)
VARIABLES
    request,      \* the InscriptionRequest of the call
    pc,           \* where the call is
    builder,      \* the InscriptionBuilder of Inscribe
    res,          \* what Inscribe returned
    mpcArgs,      \* the two hash arguments InscribeForMPCUnsigned was called with
    mpcRes,       \* what InscribeForMPCUnsigned returned
    mpcSignedRes, \* what InscribeForMPCSigned returned
    signatures,   \* the signatures argument InscribeForMPCSigned was called with
    pushes        \* the body slices the envelope builder pushed (chunking runs)
vars == <<request, pc, builder, res, mpcArgs, mpcRes, mpcSignedRes, signatures, pushes>>

\* NewInscriptionTool: the builder before initTool
EmptyBuilder ==
    [InscriptionTxCtxDataList |-> <<>>,
     CommitTxPrevOutputFetcher |-> <<>>,
     RevealTxPrevOutputFetcher |-> <<>>,
     RevealTx |-> <<>>,
     CommitTx |-> NewMsgTx,
     hasCommitTx |-> FALSE,
     MustCommitTxFee |-> 0,
     MustRevealTxFees |-> <<>>,
     CommitAddrs |-> <<>>,
     totalRevealPrevOutputValue |-> 0,
     txForEstimate |-> NewMsgTx,
     err |-> "",
     errIndex |-> -1]

(***************************************************************************)
(* Requests                                                                *)
(***************************************************************************)
KindOrder == <<"P2TR", "P2PKH", "P2WPKH", "P2SH">>
\* the kinds of n funding outputs: all of one kind, or the kinds in turn
KindLists(n) ==
    {[k \in 1..n |-> kind] : kind \in InputKinds}
    \cup {[k \in 1..n |-> KindOrder[((start + k - 2) % 4) + 1]] : start \in 1..4}

SmallData == [ContentTypeLen |-> 24, BodySize |-> 5, BodySeed |-> 72, RevealKind |-> "P2TR"]
\* a body whose reveal stays under the standard weight, and one whose
\* reveal does not
LargeData == [SmallData EXCEPT !.BodySize = 390000]
HugeData == [SmallData EXCEPT !.BodySize = 399000]
\* the inscriptions of a request: n small ones, or one of them huge; a
\* single large one
DataLists(n) ==
    {[i \in 1..n |-> SmallData]}
    \cup {[i \in 1..n |-> IF i = h THEN HugeData ELSE SmallData] : h \in 1..n}
    \cup (IF n = 1 THEN {<<LargeData>>} ELSE {})

\* RevealOutValue and MinChangeValue: left to their defaults, or set
Presets == {[rov |-> 0, mcv |-> 0], [rov |-> 1000, mcv |-> 300]}
\* where the funding stands: "kept" at the amount that leaves exactly
\* the minimal change, "zero" at the amount that leaves change 0, "bare" at
\* the amount that just pays the fee without change (all with the longest
\* signatures); Slacks are added to it
Anchors == {"kept", "zero", "bare"}
Slacks == {-1, 0}

RequestOf(kinds, amounts, dataList, commitFeeRate, preset) ==
    [CommitTxPrevOutputList |->
         [k \in 1..Len(kinds) |-> [VOut |-> 0, Amount |-> amounts[k], Kind |-> kinds[k]]],
     CommitFeeRate |-> commitFeeRate,
     RevealFeeRate |-> MaxFeeRate + 1 - commitFeeRate,
     InscriptionDataList |-> dataList,
     RevealOutValue |-> preset.rov,
     ChangeKind |-> kinds[1],
     MinChangeValue |-> preset.mcv]

LongestSigLens(n) == [k \in 1..n |-> 72]
\* the amount an anchor stands for, for a request whose amounts are not
\* set yet
AnchorAmount(r, anchor) ==
    LET n == Len(r.InscriptionDataList)
        ctxs == [i \in 1..n |-> newInscriptionTxCtxData(r, i)]
        values == [i \in 1..n |->
                      RevealPrevOutputValue(EmptyRevealTx(r, i - 1, RevealOutValueOf(r)),
                                            ctxs[i], RevealOutValueOf(r), r.RevealFeeRate)]
        funded == [i \in 1..n |->
                      [ctxs[i] EXCEPT !.RevealTxPrevOutput =
                                          NewTxOut(values[i], ctxs[i].CommitTxAddressPkScript)]]
        est == Sign(UnfundedCommitTx(r.CommitTxPrevOutputList, funded, r.ChangeKind),
                    CommitPrevOutFetcher(r.CommitTxPrevOutputList),
                    LongestSigLens(Len(r.CommitTxPrevOutputList)))
    IN SumSeq(values)
       + (CASE anchor = "kept" -> EstimateFee(est, r.CommitFeeRate) + MinChangeValueOf(r)
            [] anchor = "zero" -> EstimateFee(est, r.CommitFeeRate)
            [] OTHER -> EstimateFeeWithoutChange(est, r.CommitFeeRate))

\* the requests with a commit fee rate among `rates`
RequestsAt(rates) ==
    {LET n == Len(kinds)
         r0 == RequestOf(kinds, [k \in 1..n |-> 0], dataList, rate, preset)
         first == AnchorAmount(r0, anchor) + slack - (n - 1) * OtherAmount
     IN RequestOf(kinds, [k \in 1..n |-> IF k = 1 THEN first ELSE OtherAmount],
                  dataList, rate, preset) :
        kinds \in UNION {KindLists(n) : n \in 1..MaxInputs},
        dataList \in UNION {DataLists(n) : n \in 1..MaxInscriptions},
        rate \in rates,
        preset \in Presets,
        anchor \in Anchors,
        slack \in Slacks}
Requests == RequestsAt(0..MaxFeeRate)

\* the lengths the ECDSA signatures of one signing pass come out at
SigLenChoices(prevOutputList) ==
    {f \in [1..Len(prevOutputList) -> EcdsaSigLens] :
        \A k \in 1..Len(prevOutputList) :
            prevOutputList[k].Kind = "P2TR" => f[k] = 71}

(***************************************************************************)
(* Init                                                                    *)
(***************************************************************************)
Init ==
    /\ request \in Requests
    /\ pc = "start"
    /\ builder = EmptyBuilder
    /\ res = NoResponse
    /\ mpcArgs = <<NilHash, NilHash>>
    /\ mpcRes = NoResponse
    /\ mpcSignedRes = NoResponse
    /\ signatures = <<>>
    /\ pushes = <<>>

(***************************************************************************)
(* Inscribe: NewInscriptionTool / initTool, step by step                   *)
(***************************************************************************)
\* initTool, the loop that fills InscriptionTxCtxDataList
NewInscriptionTool ==
    /\ pc = "start"
    /\ builder' = [builder EXCEPT !.InscriptionTxCtxDataList =
                      [i \in 1..Len(request.InscriptionDataList) |->
                          newInscriptionTxCtxData(request, i)]]
    /\ pc' = "ctx"
    /\ UNCHANGED <<request, res, mpcArgs, mpcRes, mpcSignedRes, pushes, signatures>>

BuildEmptyRevealTx ==
    /\ pc = "ctx"
    /\ builder' = buildEmptyRevealTx(builder, request, RevealOutValueOf(request),
                                     request.RevealFeeRate)
    /\ pc' = "emptyReveal"
    /\ UNCHANGED <<request, res, mpcArgs, mpcRes, mpcSignedRes, pushes, signatures>>

BuildCommitTx ==
    /\ pc = "emptyReveal"
    /\ \E sigLens \in SigLenChoices(request.CommitTxPrevOutputList) :
          builder' = buildCommitTx(builder, request.CommitTxPrevOutputList,
                                   request.ChangeKind, builder.totalRevealPrevOutputValue,
                                   request.CommitFeeRate, MinChangeValueOf(request), sigLens)
    /\ pc' = IF builder'.err # "" THEN "failed" ELSE "commit"
    /\ UNCHANGED <<request, res, mpcArgs, mpcRes, mpcSignedRes, pushes, signatures>>

\* signCommitTx; the estimate of buildCommitTx is out of scope by now
SignCommitTx ==
    /\ pc = "commit"
    /\ \E sigLens \in SigLenChoices(request.CommitTxPrevOutputList) :
          builder' = [signCommitTx(builder, sigLens) EXCEPT !.txForEstimate = NewMsgTx]
    /\ pc' = "signed"
    /\ UNCHANGED <<request, res, mpcArgs, mpcRes, mpcSignedRes, pushes, signatures>>

CompleteRevealTx ==
    /\ pc = "signed"
    /\ builder' = completeRevealTx(builder)
    /\ pc' = IF builder'.err # "" THEN "failed" ELSE "completed"
    /\ UNCHANGED <<request, res, mpcArgs, mpcRes, mpcSignedRes, pushes, signatures>>

\* Inscribe returns: the response, the fee-only response, or the error
InscribeReturn ==
    /\ pc \in {"completed", "failed"}
    /\ res' = Inscribe(builder)
    /\ pc' = "done"
    /\ UNCHANGED <<request, builder, mpcArgs, mpcRes, mpcSignedRes, pushes, signatures>>

(***************************************************************************)
(* MPC calls                                                               *)
(***************************************************************************)
\* a hash of the caller's that is the id of no transaction built here
CallerHash(k) == FundingTxId(-k)
MPCArgChoices ==
    {<<NilHash, NilHash>>, <<SomeHash(CallerHash(1)), NilHash>>,
     <<SomeHash(CallerHash(1)), SomeHash(CallerHash(2))>>}

MPCUnsigned ==
    /\ pc = "start"
    /\ \E args \in MPCArgChoices, sigLens \in SigLenChoices(request.CommitTxPrevOutputList) :
          /\ mpcArgs' = args
          /\ mpcRes' = InscribeForMPCUnsigned(request, args[1], args[2], sigLens)
    /\ pc' = "mpcUnsigned"
    /\ UNCHANGED <<request, builder, res, mpcSignedRes, pushes, signatures>>

\* the signatures a caller passes for n commit inputs: n well-formed ones,
\* or the last one missing, or the last one malformed
WellFormedSignatures(n, der) == [k \in 1..n |-> SigString(128, TRUE, TRUE, der)]
MalformedStrings ==
    {SigString(63, TRUE, TRUE, 71), SigString(127, TRUE, TRUE, 71),
     SigString(128, FALSE, TRUE, 71), SigString(128, TRUE, FALSE, 71),
     SigString(130, TRUE, TRUE, 71)}
SignatureChoices(n) ==
    {WellFormedSignatures(n, der) : der \in EcdsaSigLens}
    \cup {WellFormedSignatures(n - 1, 71)}
    \cup {[WellFormedSignatures(n, 71) EXCEPT ![n] = bad] : bad \in MalformedStrings}

\* InscribeForMPCSigned on the hex the unsigned call returned
MPCSigned ==
    /\ pc = "mpcUnsigned"
    /\ mpcRes.err = ""
    /\ mpcArgs = <<NilHash, NilHash>>
    /\ \E sigs \in SignatureChoices(Len(request.CommitTxPrevOutputList)),
          sigLens \in SigLenChoices(request.CommitTxPrevOutputList) :
          /\ signatures' = sigs
          /\ IF InscribeForMPCSignedPanics(mpcRes.CommitTx, sigs)
             THEN /\ pc' = "panicked"
                  /\ mpcSignedRes' = mpcSignedRes
             ELSE /\ pc' = "mpcSigned"
                  /\ mpcSignedRes' = InscribeForMPCSigned(request, mpcRes.CommitTx, sigs, sigLens)
    /\ UNCHANGED <<request, builder, res, mpcArgs, mpcRes, pushes>>

Next ==
    \/ NewInscriptionTool
    \/ BuildEmptyRevealTx
    \/ BuildCommitTx
    \/ SignCommitTx
    \/ CompleteRevealTx
    \/ InscribeReturn
    \/ MPCUnsigned
    \/ MPCSigned

Spec == Init /\ [][Next]_vars

(***************************************************************************)
(* The envelope's body chunking, on its own                                *)
(***************************************************************************)
ChunkRequests ==
    {RequestOf(<<"P2TR">>, <<0>>, <<[SmallData EXCEPT !.BodySize = n]>>, 1,
               [rov |-> 0, mcv |-> 0]) : n \in 0..MaxBodySize}

InitChunk ==
    /\ request \in ChunkRequests
    /\ pc = "envelope"
    /\ builder = EmptyBuilder
    /\ res = NoResponse
    /\ mpcArgs = <<NilHash, NilHash>>
    /\ mpcRes = NoResponse
    /\ mpcSignedRes = NoResponse
    /\ signatures = <<>>
    /\ pushes = <<>>

\* the chunk loop of newInscriptionTxCtxData: AddFullData(Body[i:end]) for
\* every pass
EnvelopeBody ==
    /\ pc = "envelope"
    /\ LET data == request.InscriptionDataList[1]
           body == Body(data.BodySeed, data.BodySize)
           chunks == BodyChunks(data.BodySize)
       IN pushes' = [k \in 1..Len(chunks) |->
                        SubSeq(body, chunks[k][1] + 1, chunks[k][2])]
    /\ pc' = "enveloped"
    /\ UNCHANGED <<request, builder, res, mpcArgs, mpcRes, mpcSignedRes, signatures>>

NextChunk == EnvelopeBody

SpecChunk == InitChunk /\ [][NextChunk]_vars

(***************************************************************************)
(* The funding decisions of the two pipelines, side by side                *)
(***************************************************************************)
\* CommitFeeRate is an int64 and is not validated: negative rates too
DecideRequests == RequestsAt(-1..MaxFeeRate)

InitDecide ==
    /\ request \in DecideRequests
    /\ pc = "decide"
    /\ builder = EmptyBuilder
    /\ res = NoResponse
    /\ mpcArgs = <<NilHash, NilHash>>
    /\ mpcRes = NoResponse
    /\ mpcSignedRes = NoResponse
    /\ signatures = <<>>
    /\ pushes = <<>>

\* initTool up to and including buildCommitTx on one side,
\* InscribeForMPCUnsigned on the other, on the same request and with dry
\* signatures of the same sizes
Decide ==
    /\ pc = "decide"
    /\ \E sigLens \in SigLenChoices(request.CommitTxPrevOutputList) :
          LET b0 == [builder EXCEPT !.InscriptionTxCtxDataList =
                        [i \in 1..Len(request.InscriptionDataList) |->
                            newInscriptionTxCtxData(request, i)]]
              b1 == buildEmptyRevealTx(b0, request, RevealOutValueOf(request),
                                       request.RevealFeeRate)
          IN /\ builder' = buildCommitTx(b1, request.CommitTxPrevOutputList,
                                         request.ChangeKind, b1.totalRevealPrevOutputValue,
                                         request.CommitFeeRate, MinChangeValueOf(request),
                                         sigLens)
             /\ mpcRes' = InscribeForMPCUnsigned(request, NilHash, NilHash, sigLens)
    /\ pc' = "decided"
    /\ UNCHANGED <<request, res, mpcArgs, mpcSignedRes, signatures, pushes>>

NextDecide == Decide

SpecDecide == InitDecide /\ [][NextDecide]_vars

(***************************************************************************)
(* Properties                                                              *)
(***************************************************************************)
NumInscriptions == Len(request.InscriptionDataList)
NumInputs == Len(request.CommitTxPrevOutputList)
\* Inscribe has returned a response with a commit transaction
InscribeSucceeded == pc = "done" /\ res.err = "" /\ res.CommitTx # EmptyHex
ReturnedCommit == Deserialize(res.CommitTx)
ReturnedReveal(i) == Deserialize(res.RevealTxs[i])
SuppliedAmount == TotalSenderAmount(request.CommitTxPrevOutputList)
\* min_change_value as the claims state it
StatedMinChange ==
    IF request.MinChangeValue <= 0 THEN 546 ELSE request.MinChangeValue
StatedRevealOutValue ==
    IF request.RevealOutValue <= 0 THEN 546 ELSE request.RevealOutValue

\* C1: on every request on which Inscribe succeeds, the supplied amounts
\* equal the commit outputs plus the reported commitTxFee, and that fee is
\* at least virtual_size(final commit) * commit_fee_rate.
C1_CommitFeeCoversFinalSize ==
    InscribeSucceeded =>
        /\ SuppliedAmount = SumSeq(OutValues(ReturnedCommit)) + res.CommitTxFee
        /\ res.CommitTxFee >= GetTxVirtualSize(ReturnedCommit) * request.CommitFeeRate

\* buildCommitTx has returned and left a commit transaction
CommitBuilt == pc = "commit"
EstimatedChange ==
    SuppliedAmount - builder.totalRevealPrevOutputValue
        - GetTxVirtualSize(builder.txForEstimate) * request.CommitFeeRate
HasChangeOutput(tx) ==
    /\ Len(tx.TxOut) = NumInscriptions + 1
    /\ tx.TxOut[Len(tx.TxOut)].PkScript = PkScript(request.ChangeKind, <<>>)

\* C2: the commit transaction buildCommitTx emits carries the trailing
\* change output iff change >= min_change_value, with value exactly change;
\* without it the whole remainder is the fee.
C2_ChangeIffAtLeastMin ==
    CommitBuilt =>
        /\ HasChangeOutput(builder.CommitTx) <=> EstimatedChange >= StatedMinChange
        /\ HasChangeOutput(builder.CommitTx) =>
               builder.CommitTx.TxOut[NumInscriptions + 1].Value = EstimatedChange
        /\ ~HasChangeOutput(builder.CommitTx) =>
               /\ Len(builder.CommitTx.TxOut) = NumInscriptions
               /\ TxFee(builder.CommitTx, builder.CommitTxPrevOutputFetcher)
                      = SuppliedAmount - builder.totalRevealPrevOutputValue
C2_Witness ==
    /\ CommitBuilt
    /\ EstimatedChange = StatedMinChange - 1
    /\ ~HasChangeOutput(builder.CommitTx)

\* buildCommitTx has returned, with or without a commit transaction
CommitDecided == pc = "commit" \/ (pc = "failed" /\ ~builder.hasCommitTx)
BalanceWithoutChange ==
    SuppliedAmount - builder.totalRevealPrevOutputValue
        - EstimateFeeWithoutChange(builder.txForEstimate, request.CommitFeeRate)
FeeOnlyResponse == res.err = "" /\ res.CommitTx = EmptyHex
RevealsWithinWeight(r) ==
    \A i \in 1..Len(r.RevealTxs) :
        GetTransactionWeight(Deserialize(r.RevealTxs[i])) <= 400000
\* C4: every reveal transaction any entry point returns weighs at most
\* 400000; Inscribe fails with the index of the first heavier one.
C4_RevealsWithinStandardWeight ==
    /\ RevealsWithinWeight(res)
    /\ RevealsWithinWeight(mpcRes)
    /\ RevealsWithinWeight(mpcSignedRes)
    /\ (pc = "done" /\ builder.err = "reveal too heavy") =>
           /\ res.err = "reveal too heavy"
           /\ res.RevealTxs = <<>>
           /\ res.CommitTx = EmptyHex
           /\ GetTransactionWeight(builder.RevealTx[res.errIndex + 1]) > 400000

SpendsOutputOf(reveal, i, commit) ==
    /\ Len(reveal.TxIn) = 1
    /\ reveal.TxIn[1].Index = i - 1
    /\ reveal.TxIn[1].Hash = TxHash(commit)
IsSigned(in) ==
    \/ \E j \in 1..Len(in.Witness) : in.Witness[j].t \in {"ecdsa", "schnorr"}
    \/ \E j \in 1..Len(in.SignatureScript) : in.SignatureScript[j].t = "ecdsa"
\* C5: after a successful Inscribe, reveal i has exactly one input, which
\* spends output i of the final, signed commit transaction of the response.
C5_RevealSpendsSignedCommit ==
    InscribeSucceeded =>
        /\ \A k \in 1..Len(ReturnedCommit.TxIn) : IsSigned(ReturnedCommit.TxIn[k])
        /\ Len(res.RevealTxs) = NumInscriptions
        /\ \A i \in 1..NumInscriptions :
               SpendsOutputOf(ReturnedReveal(i), i, ReturnedCommit)
C5_Witness ==
    /\ InscribeSucceeded
    /\ \E k \in 1..NumInputs : request.CommitTxPrevOutputList[k].Kind = "P2PKH"
    /\ SpendsOutputOf(ReturnedReveal(1), 1, ReturnedCommit)

MPCSignedReturned == pc = "mpcSigned" /\ mpcSignedRes.err = ""
MPCSignedCommit == Deserialize(mpcSignedRes.CommitTx)
MPCUnsignedCommit == Deserialize(mpcRes.CommitTx)
\* the same transaction but for the scriptSig and witness of its inputs
SameButSignatures(a, b) ==
    /\ a.TxOut = b.TxOut
    /\ Len(a.TxIn) = Len(b.TxIn)
    /\ \A k \in 1..Len(a.TxIn) : PreviousOutPoint(a.TxIn[k]) = PreviousOutPoint(b.TxIn[k])
SegwitKinds == {"P2TR", "P2WPKH", "P2SH"}
AllInputsSegwit ==
    \A k \in 1..NumInputs : request.CommitTxPrevOutputList[k].Kind \in SegwitKinds
\* C7: with segwit inputs only, injecting the signatures leaves the commit
\* txid as it was (every scriptSig as seeded); the txid changes only with a
\* P2PKH input.
C7_SegwitSigningKeepsTxid ==
    MPCSignedReturned =>
        /\ AllInputsSegwit =>
               /\ TxHash(MPCSignedCommit) = TxHash(MPCUnsignedCommit)
               /\ \A k \in 1..NumInputs :
                      MPCSignedCommit.TxIn[k].SignatureScript
                          = MPCUnsignedCommit.TxIn[k].SignatureScript
        /\ TxHash(MPCSignedCommit) # TxHash(MPCUnsignedCommit) =>
               \E k \in 1..NumInputs : request.CommitTxPrevOutputList[k].Kind = "P2PKH"

MPCUnsignedReturned == pc = "mpcUnsigned" /\ mpcRes.err = ""
MPCRevealPrevHash(i) == Deserialize(mpcRes.RevealTxs[i]).TxIn[1].Hash
\* C8: the prev_txid of every reveal of InscribeForMPCUnsigned is the
\* signed_commit_hash when it is provided, and otherwise the caller-supplied
\* unsigned_commit_hash.
C8_Original_RevealPrevIsSuppliedHash ==
    MPCUnsignedReturned =>
        \A i \in 1..NumInscriptions :
            /\ mpcArgs[2].set => MPCRevealPrevHash(i) = mpcArgs[2].hash
            /\ (~mpcArgs[2].set /\ mpcArgs[1].set) =>
                   MPCRevealPrevHash(i) = mpcArgs[1].hash
\* C8 as amended: the prev_txid of every reveal is the signed_commit_hash
\* when it is provided, and otherwise the txid of the unsigned commit
\* transaction the call itself builds and returns; the unsigned_commit_hash
\* argument is not read.
C8_RevealPrevIsSignedOrBuiltHash ==
    MPCUnsignedReturned =>
        /\ Len(mpcRes.RevealTxs) = NumInscriptions
        /\ \A i \in 1..NumInscriptions :
               MPCRevealPrevHash(i) =
                   IF mpcArgs[2].set THEN mpcArgs[2].hash ELSE TxHash(MPCUnsignedCommit)
C8_Witness ==
    /\ MPCUnsignedReturned
    /\ mpcArgs[1].set
    /\ ~mpcArgs[2].set
    /\ MPCRevealPrevHash(1) = TxHash(MPCUnsignedCommit)
    /\ MPCRevealPrevHash(1) # mpcArgs[1].hash

\* C9: after a successful Inscribe with n inscriptions there are n reveal
\* transactions and n revealTxFees, the commit has n or n+1 outputs whose
\* first n are the inscriptions' in order, and for each i
\* commit.outputs[i].value = reveal_prevout[i].value
\*   = reveal_out_value + revealTxFees[i], revealTxFees[i] = must_reveal_fees[i].
C9_RevealFunding ==
    InscribeSucceeded =>
        /\ Len(res.RevealTxs) = NumInscriptions
        /\ Len(res.RevealTxFees) = NumInscriptions
        /\ Len(ReturnedCommit.TxOut) \in {NumInscriptions, NumInscriptions + 1}
        /\ \A i \in 1..NumInscriptions :
               /\ ReturnedCommit.TxOut[i] = builder.InscriptionTxCtxDataList[i].RevealTxPrevOutput
               /\ ReturnedCommit.TxOut[i].PkScript
                      = PkScript("P2TR", InscriptionTag(request.InscriptionDataList[i]))
               /\ ReturnedReveal(i).TxOut[1].Value = StatedRevealOutValue
               /\ ReturnedCommit.TxOut[i].Value = StatedRevealOutValue + res.RevealTxFees[i]
               /\ res.RevealTxFees[i] = builder.MustRevealTxFees[i]
C9_Witness ==
    /\ InscribeSucceeded
    /\ NumInscriptions = 2
    /\ res.RevealTxFees[2] > 0
    /\ Len(ReturnedCommit.TxOut) = 3

CeilDiv(a, b) == (a + b - 1) \div b
\* C10: a body of n bytes is pushed as ceil(n/520) contiguous chunks in
\* order, each but possibly the last of 520 bytes, none empty, and their
\* concatenation is the body: none for n = 0, one for n = 520, two of 520
\* and 1 bytes for n = 521.
C10_BodyChunks ==
    pc = "enveloped" =>
        LET data == request.InscriptionDataList[1]
            n == data.BodySize
        IN /\ Len(pushes) = CeilDiv(n, 520)
           /\ \A k \in 1..Len(pushes) :
                  /\ Len(pushes[k]) > 0
                  /\ k < Len(pushes) => Len(pushes[k]) = 520
                  /\ Len(pushes[k]) <= 520
           /\ Flatten(pushes) = Body(data.BodySeed, n)
           /\ n = 0 => pushes = <<>>
           /\ n = 520 => Len(pushes) = 1
           /\ n = 521 => (Len(pushes) = 2 /\ Len(pushes[1]) = 520 /\ Len(pushes[2]) = 1)
C10_Witness ==
    /\ pc = "enveloped"
    /\ request.InscriptionDataList[1].BodySize = 521
    /\ Len(pushes) = 2
    /\ Len(pushes[2]) = 1

\* the positions of the inscriptions whose body is 390000 bytes
Bodies390000 ==
    {i \in 1..NumInscriptions : request.InscriptionDataList[i].BodySize = 390000}
\* Inscribe has returned after completeRevealTx ran
RevealsCompleted == pc = "done" /\ builder.hasCommitTx
\* C11: an inscription whose body is 390000 bytes makes Inscribe fail with
\* the reveal-too-heavy error for its index: its completed reveal weighs
\* more than 400000.
C11_Original_Body390000TooHeavy ==
    RevealsCompleted =>
        \A i \in Bodies390000 :
            /\ GetTransactionWeight(builder.RevealTx[i]) > 400000
            /\ res.err = "reveal too heavy"
            /\ res.errIndex = i - 1
\* C11 as amended: the completed reveal of a 390000-byte body (one input,
\* one output, witness of a 64-byte signature, the leaf script with the body
\* in 520-byte pushes, a 33-byte control block) weighs 3*base_size +
\* total_size = 4*base_size + 2 + witness size, which is below 400000
\* (witness bytes count once), so Inscribe does not fail on it and returns
\* it; a body of 399000 bytes does fail with the error naming its index.
C11_Body390000WithinWeight ==
    RevealsCompleted =>
        /\ \A i \in Bodies390000 :
               LET tx == builder.RevealTx[i]
                   base == SerializeSizeStripped(tx)
                   wit == WitnessSerializeSize(tx.TxIn[1].Witness)
               IN /\ Len(tx.TxIn) = 1 /\ Len(tx.TxOut) = 1
                  /\ Len(tx.TxIn[1].Witness) = 3
                  /\ tx.TxIn[1].Witness[1].len = 64
                  /\ tx.TxIn[1].Witness[3].len = 33
                  /\ tx.TxIn[1].Witness[2].len > 390000
                  /\ GetTransactionWeight(tx) = 4 * base + 2 + wit
                  /\ GetTransactionWeight(tx) < 400000
                  /\ res.err = ""
                  /\ GetTransactionWeight(ReturnedReveal(i)) = GetTransactionWeight(tx)
        /\ \A i \in 1..NumInscriptions :
               (/\ request.InscriptionDataList[i].BodySize = 399000
                /\ \A j \in 1..(i - 1) : request.InscriptionDataList[j].BodySize < 390000)
               => (res.err = "reveal too heavy" /\ res.errIndex = i - 1)
C11_Witness ==
    /\ RevealsCompleted
    /\ Bodies390000 = {1}
    /\ res.err = ""
    /\ GetTransactionWeight(ReturnedReveal(1)) > 390000

\* C15: the pre-sized reveal fee is exact: for every inscription i of a
\* successful Inscribe, reveal_prevout[i].value - reveal_out_value
\* = base_size*rate + ((witness_size+2+3)/4)*rate (dummy 64-byte signature
\* and 33-byte control block) = virtual_size(completed reveal i) * rate.
C15_RevealFeeExact ==
    InscribeSucceeded =>
        \A i \in 1..NumInscriptions :
            LET tx == ReturnedReveal(i)
                ctx == builder.InscriptionTxCtxDataList[i]
                paid == ctx.RevealTxPrevOutput.Value - tx.TxOut[1].Value
                dummy == 1 + (1 + 64) + (VarIntSerializeSize(ctx.InscriptionScript.len)
                                          + ctx.InscriptionScript.len) + (1 + 33)
            IN /\ tx.TxOut[1].Value = StatedRevealOutValue
               /\ paid = SerializeSizeStripped(tx) * request.RevealFeeRate
                             + ((dummy + 2 + 3) \div 4) * request.RevealFeeRate
               /\ paid = ((GetTransactionWeight(tx) + 3) \div 4) * request.RevealFeeRate
               /\ paid = res.RevealTxFees[i]
C15_Witness ==
    /\ InscribeSucceeded
    /\ NumInscriptions = 1
    /\ request.RevealFeeRate = 3
    /\ res.RevealTxFees[1] = 3 * GetTxVirtualSize(ReturnedReveal(1))
    /\ WitnessSerializeSize(ReturnedReveal(1).TxIn[1].Witness) % 4 # 3

\* Sign has run over the commit transaction without error: the dry pass of
\* buildCommitTx, or signCommitTx
CommitSignedWithoutError == pc \in {"commit", "signed"}
ScriptSigEmpty(in) == in.SignatureScript = <<>>
WitnessEmpty(in) == in.Witness = <<>>
\* C13: the signer fills only the witness of a P2TR input, only the
\* scriptSig of a P2PKH input, only the witness of a native P2WPKH input,
\* the witness and a redeem-script push in scriptSig of a P2SH-wrapped
\* P2WPKH input; on a prior scriptPubKey of any other shape signing fails
\* with an error and the input is not populated.
C13_SignerDispatch ==
    \A k \in 1..Len(builder.CommitTx.TxIn) :
        LET in == builder.CommitTx.TxIn[k]
            kind == request.CommitTxPrevOutputList[k].Kind
        IN /\ (CommitSignedWithoutError /\ kind = "P2TR") =>
                  (~WitnessEmpty(in) /\ ScriptSigEmpty(in))
           /\ (CommitSignedWithoutError /\ kind = "P2PKH") =>
                  (WitnessEmpty(in) /\ ~ScriptSigEmpty(in))
           /\ (CommitSignedWithoutError /\ kind = "P2WPKH") =>
                  (~WitnessEmpty(in) /\ ScriptSigEmpty(in))
           /\ (CommitSignedWithoutError /\ kind = "P2SH") =>
                  (~WitnessEmpty(in) /\ in.SignatureScript = <<ScriptPush(RedeemScript(k))>>)
           /\ kind \notin {"P2TR", "P2PKH", "P2WPKH", "P2SH"} =>
                  (~CommitSignedWithoutError /\ WitnessEmpty(in) /\ ScriptSigEmpty(in))

\* some commit input has no entry in signatures, or an entry that is not
\* a string of 128 hexadecimal characters
SignaturesMalformed ==
    \E i \in 1..NumInputs :
        \/ i > Len(signatures)
        \/ signatures[i].chars # 128
        \/ ~signatures[i].rHex
        \/ ~signatures[i].sHex
MPCSignedCalled == pc \in {"mpcSigned", "panicked"}
\* C12: whenever signatures[i] is missing or is not a string of 128
\* hexadecimal characters for some commit input i, InscribeForMPCSigned
\* returns an error value and no transactions; it never aborts abnormally.
C12_MalformedSignatureSurfaces ==
    (MPCSignedCalled /\ SignaturesMalformed) =>
        /\ pc # "panicked"
        /\ mpcSignedRes.err # ""
        /\ mpcSignedRes.CommitTx = EmptyHex
        /\ mpcSignedRes.RevealTxs = <<>>

\* the funding InscribeForMPCUnsigned requires for reveal i
MPCRevealInValue(i) ==
    RevealOutValueOf(request)
        + MPCRevealFee(EmptyRevealTx(request, i - 1, RevealOutValueOf(request)),
                       builder.InscriptionTxCtxDataList[i], request.RevealFeeRate)
\* C14: on every request, with dry signatures of equal sizes,
\* InscribeForMPCUnsigned and buildEmptyRevealTx + buildCommitTx decide
\* alike: the same funding for every reveal, insufficient balance reported
\* by one exactly when by the other, and the same commit outputs, change
\* output included.
C14_SameDecisions ==
    pc = "decided" =>
        /\ \A i \in 1..NumInscriptions :
               builder.InscriptionTxCtxDataList[i].RevealTxPrevOutput.Value
                   = MPCRevealInValue(i)
        /\ builder.err = "insufficient balance" <=> mpcRes.err = "insufficient balance"
        /\ (builder.err = "" /\ mpcRes.err = "") =>
               builder.CommitTx.TxOut = MPCUnsignedCommit.TxOut

====
